---- MODULE Spec2Model ----
(***************************************************************************)
(* A model of homework/00_multithreaded_server/server.py: the protocol     *)
(* handler parse_and_execute (a pure function over character sequences)    *)
(* and the ThreadPoolServer (workers, acceptor, connection readers, stats  *)
(* reporter, stop()).                                                      *)
(***************************************************************************)
EXTENDS Integers, Sequences, FiniteSets, TLC

\* ---------------------------------------------------------------- bounds
MaxWorkers == 2
MaxQueue == 2
MaxConns == 2
MaxLines == 3
MaxClock == 1
MaxCloses == 1
MaxArgLen == 3
MaxOver == 3
MaxTextLen == 4

\* ------------------------------------------------------ program constants
SleepMaxMs == 10000

\* ------------------------------------------------------------- variables
VARIABLES
  workers,           \* self.workers
  queue_size,        \* self.queue_size
  reject_when_full,  \* self.reject_when_full
  task_q,            \* self.task_q, a FIFO of Task records
  stopFlag,          \* self._stop
  lock,              \* self._lock: 0 when free, else the holder
  processed,         \* self._processed
  total_latency,     \* self._total_latency
  now,               \* the clock read by time.time()
  wpc,               \* each worker's position in _worker_loop
  wtask,             \* each worker's local `task`
  wfin,              \* each worker's local `finished`
  rpc,               \* each connection reader's position in handle_client
  rtask,             \* each reader's local `line` / `task`
  nread,             \* lines read so far from each connection
  clientClosed,      \* the peer has closed the connection
  out,               \* the response lines written to each connection
  apc,               \* the acceptor's position in _accept_loop
  spc,               \* the stats reporter's position in _stats_loop
  snapshot,          \* the stats reporter's last (processed, latency) read
  mpc,               \* the main thread: start() / stop()
  sidx,              \* stop(): sentinels attempted so far
  enqueued,          \* history: ids of the tasks put in the queue by readers
  rejected,          \* history: ids of the tasks dropped by the reject path
  pLine,             \* handler run: the request line
  pArg,              \* handler run: the argument text the line was built from
  pMs,               \* handler run: <<ms>> when the argument was written from
                     \* the integer ms, else <<>>
  pRes,              \* handler run: parse_and_execute's result
  pPc                \* handler run: "input" before the call, "done" after

svars == <<workers, queue_size, reject_when_full, task_q, stopFlag, lock,
           processed, total_latency, now, wpc, wtask, wfin, rpc, rtask,
           nread, clientClosed, out, apc, spc, snapshot, mpc, sidx,
           enqueued, rejected>>
pvars == <<pLine, pArg, pMs, pRes, pPc>>
vars == <<svars, pvars>>

\* groups used by the actions' UNCHANGED clauses
cfg == <<workers, queue_size, reject_when_full>>
counters == <<processed, total_latency>>
wvars == <<wpc, wtask, wfin>>
rvars == <<rpc, rtask, nread>>
hist == <<enqueued, rejected>>

\* ------------------------------------------------------------ characters
Whitespace == {" ", "\t", "\n", "\r"}
Digits == {"0", "1", "2", "3", "4", "5", "6", "7", "8", "9"}

DigitVal(ch) ==
  CASE ch = "0" -> 0 [] ch = "1" -> 1 [] ch = "2" -> 2 [] ch = "3" -> 3
    [] ch = "4" -> 4 [] ch = "5" -> 5 [] ch = "6" -> 6 [] ch = "7" -> 7
    [] ch = "8" -> 8 [] ch = "9" -> 9

DigitChar(d) ==
  CASE d = 0 -> "0" [] d = 1 -> "1" [] d = 2 -> "2" [] d = 3 -> "3"
    [] d = 4 -> "4" [] d = 5 -> "5" [] d = 6 -> "6" [] d = 7 -> "7"
    [] d = 8 -> "8" [] d = 9 -> "9"

\* str.upper() on ASCII text
UpperChar(ch) ==
  CASE ch = "a" -> "A" [] ch = "b" -> "B" [] ch = "c" -> "C" [] ch = "d" -> "D"
    [] ch = "e" -> "E" [] ch = "f" -> "F" [] ch = "g" -> "G" [] ch = "h" -> "H"
    [] ch = "i" -> "I" [] ch = "j" -> "J" [] ch = "k" -> "K" [] ch = "l" -> "L"
    [] ch = "m" -> "M" [] ch = "n" -> "N" [] ch = "o" -> "O" [] ch = "p" -> "P"
    [] ch = "q" -> "Q" [] ch = "r" -> "R" [] ch = "s" -> "S" [] ch = "t" -> "T"
    [] ch = "u" -> "U" [] ch = "v" -> "V" [] ch = "w" -> "W" [] ch = "x" -> "X"
    [] ch = "y" -> "Y" [] ch = "z" -> "Z"
    [] OTHER -> ch

\* (mutant) the opcode is not uppercased
UpperLeftAsIs(s) == s

Upper(s) == [i \in 1..Len(s) |-> UpperChar(s[i])]

RECURSIVE LStrip(_)
LStrip(s) ==
  IF s = <<>> THEN s
  ELSE IF Head(s) \in Whitespace THEN LStrip(Tail(s)) ELSE s

RECURSIVE RStrip(_)
RStrip(s) ==
  IF s = <<>> THEN s
  ELSE IF s[Len(s)] \in Whitespace THEN RStrip(SubSeq(s, 1, Len(s) - 1)) ELSE s

\* str.strip()
Strip(s) == RStrip(LStrip(s))

\* the position of the first " " of s, or 0
RECURSIVE FirstSpaceFrom(_, _)
FirstSpaceFrom(s, i) ==
  IF i > Len(s) THEN 0
  ELSE IF s[i] = " " THEN i ELSE FirstSpaceFrom(s, i + 1)

\* line.split(" ", 1)
Split1(s) ==
  LET k == FirstSpaceFrom(s, 1) IN
  IF k = 0 THEN <<s>>
  ELSE <<SubSeq(s, 1, k - 1), SubSeq(s, k + 1, Len(s))>>

\* the digits of an int() literal after the sign: groups of digits, single
\* underscores only between two digits
IsDigitBody(s) ==
  /\ Len(s) >= 1
  /\ \A i \in 1..Len(s) :
       \/ s[i] \in Digits
       \/ /\ s[i] = "_"
          /\ i > 1 /\ i < Len(s)
          /\ s[i - 1] \in Digits /\ s[i + 1] \in Digits

RECURSIVE DigitsValue(_, _)
DigitsValue(s, acc) ==
  IF s = <<>> THEN acc
  ELSE IF Head(s) = "_" THEN DigitsValue(Tail(s), acc)
  ELSE DigitsValue(Tail(s), 10 * acc + DigitVal(Head(s)))

\* int(arg): [ok |-> FALSE] stands for ValueError
PyInt(arg) ==
  LET t == Strip(arg)
      signed == t # <<>> /\ Head(t) \in {"+", "-"}
      body == IF signed THEN Tail(t) ELSE t
  IN IF IsDigitBody(body)
     THEN [ok |-> TRUE,
           val |-> IF signed /\ Head(t) = "-"
                   THEN 0 - DigitsValue(body, 0) ELSE DigitsValue(body, 0)]
     ELSE [ok |-> FALSE, val |-> 0]

RECURSIVE NatToStr(_)
NatToStr(n) ==
  IF n < 10 THEN <<DigitChar(n)>>
  ELSE Append(NatToStr(n \div 10), DigitChar(n % 10))

\* str(ms) inside an f-string
IntToStr(n) == IF n < 0 THEN <<"-">> \o NatToStr(0 - n) ELSE NatToStr(n)

\* ---------------------------------------------------------- reply texts
OkPrefix == <<"O", "K", " ">>
ErrEmpty ==
  <<"E", "R", "R", " ", "e", "m", "p", "t", "y", " ",
    "r", "e", "q", "u", "e", "s", "t">>
ErrSleepRange ==
  <<"E", "R", "R", " ", "S", "L", "E", "E", "P", " ", "m", "s", " ",
    "m", "u", "s", "t", " ", "b", "e", " ",
    "0", ".", ".", "1", "0", "0", "0", "0">>
ErrInvalidArg ==
  <<"E", "R", "R", " ", "i", "n", "v", "a", "l", "i", "d", " ",
    "a", "r", "g", "u", "m", "e", "n", "t">>
ErrUnknownOp ==
  <<"E", "R", "R", " ", "u", "n", "k", "n", "o", "w", "n", " ", "o", "p", " ">>
ErrServerBusy ==
  <<"E", "R", "R", " ", "s", "e", "r", "v", "e", "r", " ", "b", "u", "s", "y">>
OpSleep == <<"S", "L", "E", "E", "P">>
OpEcho == <<"E", "C", "H", "O">>

\* -------------------------------------------------------- the handler
\* (mutant) the range test with `>=` in place of `>`
SleepBranchOffByOne(arg) ==
  LET r == PyInt(arg) IN
  IF ~r.ok THEN [resp |-> ErrInvalidArg, slept |-> 0]
  ELSE IF r.val < 0 \/ r.val >= SleepMaxMs
       THEN [resp |-> ErrSleepRange, slept |-> 0]
       ELSE [resp |-> OkPrefix \o IntToStr(r.val), slept |-> r.val]

\* The SLEEP branch: int(arg), the range test, the sleep, the reply.
SleepBranch(arg) ==
  LET r == PyInt(arg) IN
  IF ~r.ok THEN [resp |-> ErrInvalidArg, slept |-> 0]
  ELSE IF r.val < 0 \/ r.val > SleepMaxMs
       THEN [resp |-> ErrSleepRange, slept |-> 0]
       ELSE [resp |-> OkPrefix \o IntToStr(r.val), slept |-> r.val]

\* parse_and_execute(line): the reply (without the newline) and the
\* milliseconds the calling worker slept
ParseAndExecute(line) ==
  LET l == Strip(line) IN
  IF l = <<>> THEN [resp |-> ErrEmpty, slept |-> 0]
  ELSE
    LET parts == Split1(l)
        op == Upper(parts[1])
        arg == IF Len(parts) > 1 THEN parts[2] ELSE <<>>
    IN CASE op = OpSleep -> SleepBranch(arg)
         [] op = OpEcho -> [resp |-> OkPrefix \o arg, slept |-> 0]
         [] OTHER -> [resp |-> ErrUnknownOp \o op, slept |-> 0]

\* ------------------------------------------------------------ the server
Workers == 1..MaxWorkers
Conns == 1..MaxConns
None == 0

ReqEcho == <<"E", "C", "H", "O", " ", "a", "\n">>
ReqSleep == <<"s", "l", "e", "e", "p", " ", "5", "\n">>
\* the request lines the model's clients send
Requests == {ReqEcho}
\* malformed lines: blank, unknown opcode, SLEEP with a bad argument
ReqBlank == <<" ", "\n">>
ReqUnknown == <<"f", "o", "o", " ", "1", "\n">>
ReqBadSleep == <<"S", "L", "E", "E", "P", " ", "x", "\n">>
MixedRequests == {ReqEcho, ReqBlank, ReqUnknown, ReqBadSleep}

\* Task(conn, addr, line, enqueued_at); seq numbers the connection's lines
Task(c, k, l, t) == [conn |-> c, seq |-> k, line |-> l, enqueued_at |-> t]
NoTask == Task(None, 0, <<>>, 0)
\* stop()'s sentinel: Task(conn=None, ..., line="", enqueued_at=time.time())
Sentinel(t) == Task(None, 0, <<>>, t)
TaskId(t) == <<t.conn, t.seq>>

\* a line written to a connection: the request it answers and the text
Reply(k, text) == [seq |-> k, text |-> text \o <<"\n">>]

\* the server side of connection c is open: accepted and not yet closed
ConnOpen(c) == rpc[c] \in {"read", "put", "busy", "leaked"}

\* the request lines read so far, over all connections
RECURSIVE SumTo(_, _)
SumTo(f, n) == IF n = 0 THEN 0 ELSE f[n] + SumTo(f, n - 1)
LinesRead == SumTo(nread, MaxConns)

\* the threads inside sendall on connection c
WorkerWriters(c) == {w \in Workers : wpc[w] = "sending" /\ wtask[w].conn = c}
ReaderWriting(c) == rpc[c] = "busy"

\* __init__: the fields other than the configuration
Fresh ==
  /\ task_q = <<>>
  /\ stopFlag = FALSE
  /\ lock = 0
  /\ processed = 0
  /\ total_latency = 0
  /\ now = 0
  /\ wpc = [w \in Workers |-> "new"]
  /\ wtask = [w \in Workers |-> NoTask]
  /\ wfin = [w \in Workers |-> 0]
  /\ rpc = [c \in Conns |-> "idle"]
  /\ rtask = [c \in Conns |-> NoTask]
  /\ nread = [c \in Conns |-> 0]
  /\ clientClosed = [c \in Conns |-> FALSE]
  /\ out = [c \in Conns |-> <<>>]
  /\ apc = "new"
  /\ spc = "new"
  /\ snapshot = <<0, 0>>
  /\ mpc = "init"
  /\ sidx = 0
  /\ enqueued = {}
  /\ rejected = {}

\* __init__(host, port, workers, queue_size, reject_when_full)
InitServer ==
  /\ workers \in 1..MaxWorkers
  /\ queue_size \in 1..MaxQueue
  /\ reject_when_full \in BOOLEAN
  /\ Fresh

NoRes == [resp |-> <<>>, slept |-> 0]
InitHandlerOff ==
  pLine = <<>> /\ pArg = <<>> /\ pMs = <<>> /\ pRes = NoRes /\ pPc = "off"

Init == InitServer /\ InitHandlerOff

\* ---- main thread: start() and stop()
\* start(): spawn the workers, the acceptor and the stats reporter
Start ==
  /\ mpc = "init"
  /\ mpc' = "run"
  /\ wpc' = [w \in Workers |-> IF w <= workers THEN "loop" ELSE "unused"]
  /\ apc' = "accept"
  /\ spc' = "loop"
  /\ UNCHANGED <<cfg, task_q, stopFlag, lock, counters, now, wtask, wfin,
                 rvars, clientClosed, out, snapshot, sidx, hist, pvars>>

\* stop(): self._stop.set()
StopSet ==
  /\ mpc = "run"
  /\ stopFlag' = TRUE
  /\ mpc' = "sentinels"
  /\ sidx' = 0
  /\ UNCHANGED <<cfg, task_q, lock, counters, now, wvars, rvars, clientClosed,
                 out, apc, spc, snapshot, hist, pvars>>

\* (mutant) the item is appended whether or not the queue is full
PutNowaitForced(q, item) == Append(q, item)

\* put_nowait(item): the queue after the call (queue.Full is swallowed)
PutNowait(q, item) == IF Len(q) < queue_size THEN Append(q, item) ELSE q

\* stop(): one iteration of the sentinel loop; after the last one the joins,
\* each with a timeout, so stop() returns in any case
StopSentinel ==
  /\ mpc = "sentinels"
  /\ sidx < workers
  /\ task_q' = PutNowait(task_q, Sentinel(now))
  /\ sidx' = sidx + 1
  /\ mpc' = IF sidx + 1 = workers THEN "stopped" ELSE "sentinels"
  /\ UNCHANGED <<cfg, stopFlag, lock, counters, now, wvars, rvars,
                 clientClosed, out, apc, spc, snapshot, hist, pvars>>

\* ---- the clock
Tick ==
  /\ mpc # "init"
  /\ now < MaxClock
  /\ now' = now + 1
  /\ UNCHANGED <<cfg, task_q, stopFlag, lock, counters, wvars, rvars,
                 clientClosed, out, apc, spc, snapshot, mpc, sidx, hist, pvars>>

\* ---- _worker_loop
\* `while not self._stop.is_set()`
WorkerLoop(w) ==
  /\ wpc[w] = "loop"
  /\ wpc' = [wpc EXCEPT ![w] = IF stopFlag THEN "exited" ELSE "get"]
  /\ UNCHANGED <<cfg, task_q, stopFlag, lock, counters, now, wtask, wfin,
                 rvars, clientClosed, out, apc, spc, snapshot, mpc, sidx,
                 hist, pvars>>

\* (mutant) a sentinel is skipped and the loop goes on
AfterGetSkipsSentinel(t) == IF t.conn = None THEN "loop" ELSE "send"

\* where a worker goes with the task it dequeued: a sentinel ends the loop
AfterGet(t) == IF t.conn = None THEN "exited" ELSE "send"

\* `task = self.task_q.get()`, the sentinel check, and for a real task
\* `resp = parse_and_execute(task.line)` (local to the worker)
WorkerGet(w) ==
  /\ wpc[w] = "get"
  /\ task_q # <<>>
  /\ task_q' = Tail(task_q)
  /\ wpc' = [wpc EXCEPT ![w] = AfterGet(Head(task_q))]
  /\ wtask' = [wtask EXCEPT ![w] =
                 IF Head(task_q).conn = None THEN NoTask ELSE Head(task_q)]
  /\ UNCHANGED <<cfg, stopFlag, lock, counters, now, wfin, rvars,
                 clientClosed, out, apc, spc, snapshot, mpc, sidx, hist, pvars>>

\* `with self._lock:` entered, sendall begins
WorkerLock(w) ==
  /\ wpc[w] = "send"
  /\ lock = 0
  /\ lock' = w
  /\ wpc' = [wpc EXCEPT ![w] = "sending"]
  /\ UNCHANGED <<cfg, task_q, stopFlag, counters, now, wtask, wfin, rvars,
                 clientClosed, out, apc, spc, snapshot, mpc, sidx, hist, pvars>>

\* (mutant) the reply is written twice
SendAllTwice(o, c, r) == [o EXCEPT ![c] = Append(Append(@, r), r)]

\* the lines written to the connections after sendall(r) returns on c
SendAll(o, c, r) == [o EXCEPT ![c] = Append(@, r)]

\* sendall on connection c succeeds: the socket is open on both sides (a
\* write that the peer's close overtakes is a write before the close)
CanSend(c) == ConnOpen(c) /\ ~clientClosed[c]
\* sendall on connection c raises OSError (reset, broken pipe, closed socket)
CanFail(c) == ~CanSend(c)

\* (mutant) the OSError is not caught and ends the worker thread
AfterSendErrorDies == "exited"

\* where a worker goes when sendall raised OSError: the error is swallowed
AfterSendError == "count"

\* sendall returns or raises; the lock is released; `finished = time.time()`
WorkerSend(w) ==
  /\ wpc[w] = "sending"
  /\ \/ /\ CanSend(wtask[w].conn)
        /\ out' = SendAll(out, wtask[w].conn,
                           Reply(wtask[w].seq,
                                 ParseAndExecute(wtask[w].line).resp))
        /\ wpc' = [wpc EXCEPT ![w] = "count"]
     \/ /\ CanFail(wtask[w].conn)
        /\ out' = out
        /\ wpc' = [wpc EXCEPT ![w] = AfterSendError]
  /\ lock' = 0
  /\ wfin' = [wfin EXCEPT ![w] = now]
  /\ UNCHANGED <<cfg, task_q, stopFlag, counters, now, wtask, rvars,
                 clientClosed, apc, spc, snapshot, mpc, sidx, hist, pvars>>

\* (mutant) the increment is lost
CountOneLost(n) == n

\* the processed count after one more task
CountOne(n) == n + 1

\* `with self._lock:` the two counters; task_done()
WorkerCount(w) ==
  /\ wpc[w] = "count"
  /\ lock = 0
  /\ processed' = CountOne(processed)
  /\ total_latency' = total_latency + (wfin[w] - wtask[w].enqueued_at)
  /\ wpc' = [wpc EXCEPT ![w] = "loop"]
  /\ wtask' = [wtask EXCEPT ![w] = NoTask]
  /\ wfin' = [wfin EXCEPT ![w] = 0]
  /\ UNCHANGED <<cfg, task_q, stopFlag, lock, now, rvars, clientClosed, out,
                 apc, spc, snapshot, mpc, sidx, hist, pvars>>

\* The same two statements one at a time, for the threads that look at the
\* counters: `with self._lock:` entered and `self._processed += 1`
WorkerCountBegin(w) ==
  /\ wpc[w] = "count"
  /\ lock = 0
  /\ lock' = w
  /\ processed' = CountOne(processed)
  /\ wpc' = [wpc EXCEPT ![w] = "counting"]
  /\ UNCHANGED <<cfg, task_q, stopFlag, total_latency, now, wtask, wfin, rvars,
                 clientClosed, out, apc, spc, snapshot, mpc, sidx, hist, pvars>>

\* `self._total_latency += (finished - task.enqueued_at)`
AddLatency(total, w) == total + (wfin[w] - wtask[w].enqueued_at)

\* the latency is added, the lock released; task_done()
WorkerCountEnd(w) ==
  /\ wpc[w] = "counting"
  /\ total_latency' = AddLatency(total_latency, w)
  /\ lock' = 0
  /\ wpc' = [wpc EXCEPT ![w] = "loop"]
  /\ wtask' = [wtask EXCEPT ![w] = NoTask]
  /\ wfin' = [wfin EXCEPT ![w] = 0]
  /\ UNCHANGED <<cfg, task_q, stopFlag, processed, now, rvars, clientClosed,
                 out, apc, spc, snapshot, mpc, sidx, hist, pvars>>

\* ---- _accept_loop
\* `while not self._stop.is_set()` after an accept() that returned or timed
\* out: back into accept(), or out of the loop, where the finally closes the
\* listening socket.  (The flag is only ever set, so the test is taken at the
\* step that leads to it.)
AcceptAgain == IF stopFlag THEN "closed" ELSE "accept"

\* accept() returns a connection and its reader thread is started; the
\* reader's conn.setsockopt(...) returns, or raises OSError and the thread
\* ends before `with conn` is entered
Accept(c) ==
  /\ apc = "accept"
  /\ rpc[c] = "idle"
  /\ \A d \in Conns : d < c => rpc[d] # "idle"
  /\ \/ rpc' = [rpc EXCEPT ![c] = "read"]
     \/ rpc' = [rpc EXCEPT ![c] = "leaked"]
  /\ apc' = AcceptAgain
  /\ UNCHANGED <<cfg, task_q, stopFlag, lock, counters, now, wvars, rtask,
                 nread, clientClosed, out, spc, snapshot, mpc, sidx, hist,
                 pvars>>

\* accept() times out: `continue`
AcceptTimeout ==
  /\ apc = "accept"
  /\ apc' = AcceptAgain
  /\ UNCHANGED <<cfg, task_q, stopFlag, lock, counters, now, wvars, rvars,
                 clientClosed, out, spc, snapshot, mpc, sidx, hist, pvars>>

\* accept() raises OSError: `break`, the finally closes the socket
AcceptError ==
  /\ apc = "accept"
  /\ apc' = "closed"
  /\ UNCHANGED <<cfg, task_q, stopFlag, lock, counters, now, wvars, rvars,
                 clientClosed, out, spc, snapshot, mpc, sidx, hist, pvars>>

\* ---- handle_client
\* `for line in f` yields the next line; `if self._stop.is_set(): break`
\* (the `with` closes the connection), else the Task is built
ReaderLineOf(c, lines) ==
  /\ rpc[c] = "read"
  /\ ~clientClosed[c]
  /\ LinesRead < MaxLines
  /\ nread' = [nread EXCEPT ![c] = @ + 1]
  /\ IF stopFlag
     THEN /\ rpc' = [rpc EXCEPT ![c] = "closed"]
          /\ rtask' = rtask
     ELSE /\ rpc' = [rpc EXCEPT ![c] = "put"]
          /\ \E l \in lines :
               rtask' = [rtask EXCEPT ![c] = Task(c, nread[c] + 1, l, now)]
  /\ UNCHANGED <<cfg, task_q, stopFlag, lock, counters, now, wvars,
                 clientClosed, out, apc, spc, snapshot, mpc, sidx, hist, pvars>>

ReaderLine(c) == ReaderLineOf(c, Requests)

\* `for line in f`: EOF or a read error; the `with` closes the connection
ReaderEnd(c) ==
  /\ rpc[c] = "read"
  /\ clientClosed[c]
  /\ rpc' = [rpc EXCEPT ![c] = "closed"]
  /\ UNCHANGED <<cfg, task_q, stopFlag, lock, counters, now, wvars, rtask,
                 nread, clientClosed, out, apc, spc, snapshot, mpc, sidx,
                 hist, pvars>>

\* the queue has room for one more entry
HasRoom(q) == Len(q) < queue_size

\* task_q.put(task) returns: the task is in the queue
ReaderPut(c) ==
  /\ rpc[c] = "put"
  /\ HasRoom(task_q)
  /\ task_q' = Append(task_q, rtask[c])
  /\ enqueued' = enqueued \cup {TaskId(rtask[c])}
  /\ rtask' = [rtask EXCEPT ![c] = NoTask]
  /\ rpc' = [rpc EXCEPT ![c] = "read"]
  /\ UNCHANGED <<cfg, stopFlag, lock, counters, now, wvars, nread,
                 clientClosed, out, apc, spc, snapshot, mpc, sidx, rejected, pvars>>

\* (mutant) the put has a timeout under either policy
MayRejectAlways == TRUE

\* `if self.reject_when_full`: the put has a timeout and can raise queue.Full
MayReject == reject_when_full

\* task_q.put(task, timeout=1.0) raises queue.Full: the reject path begins
ReaderFull(c) ==
  /\ rpc[c] = "put"
  /\ MayReject
  /\ ~HasRoom(task_q)
  /\ rejected' = rejected \cup {TaskId(rtask[c])}
  /\ rpc' = [rpc EXCEPT ![c] = "busy"]
  /\ UNCHANGED <<cfg, task_q, stopFlag, lock, counters, now, wvars, rtask,
                 nread, clientClosed, out, apc, spc, snapshot, mpc, sidx,
                 enqueued, pvars>>

\* (mutant) `break` in place of `continue`
AfterBusyBreak == "closed"

\* where a reader goes after the reject path: `continue`, the next line
AfterBusy == "read"

\* conn.sendall(b"ERR server busy\n") returns or raises; `continue`
ReaderBusy(c) ==
  /\ rpc[c] = "busy"
  /\ \/ /\ CanSend(c)
        /\ out' = SendAll(out, c, Reply(rtask[c].seq, ErrServerBusy))
     \/ /\ CanFail(c)
        /\ out' = out
  /\ rtask' = [rtask EXCEPT ![c] = NoTask]
  /\ rpc' = [rpc EXCEPT ![c] = AfterBusy]
  /\ UNCHANGED <<cfg, task_q, stopFlag, lock, counters, now, wvars, nread,
                 clientClosed, apc, spc, snapshot, mpc, sidx, hist, pvars>>

\* ---- the peer
ClientClose(c) ==
  /\ mpc # "init"
  /\ ~clientClosed[c]
  /\ Cardinality({d \in Conns : clientClosed[d]}) < MaxCloses
  /\ clientClosed' = [clientClosed EXCEPT ![c] = TRUE]
  /\ UNCHANGED <<cfg, task_q, stopFlag, lock, counters, now, wvars, rvars,
                 out, apc, spc, snapshot, mpc, sidx, hist, pvars>>

\* ---- _stats_loop
StatsCheck ==
  /\ spc = "loop"
  /\ spc' = IF stopFlag THEN "exited" ELSE "sleep"
  /\ UNCHANGED <<cfg, task_q, stopFlag, lock, counters, now, wvars, rvars,
                 clientClosed, out, apc, snapshot, mpc, sidx, hist, pvars>>

\* (mutant) the reporter reads the counters without the lock
StatsMayReadUnlocked == TRUE

\* `with self._lock:` can be entered
StatsMayRead == lock = 0

\* `with self._lock:` the two counters are read together
StatsSnapshot ==
  /\ spc = "sleep"
  /\ StatsMayRead
  /\ snapshot' = <<processed, total_latency>>
  /\ spc' = "loop"
  /\ UNCHANGED <<cfg, task_q, stopFlag, lock, counters, now, wvars, rvars,
                 clientClosed, out, apc, mpc, sidx, hist, pvars>>

Next ==
  \/ Start \/ StopSet \/ StopSentinel
  \/ \E w \in Workers :
       WorkerLoop(w) \/ WorkerGet(w) \/ WorkerLock(w)
         \/ WorkerSend(w) \/ WorkerCount(w)
  \/ AcceptTimeout \/ AcceptError
  \/ \E c \in Conns :
       Accept(c) \/ ReaderLine(c) \/ ReaderEnd(c)
         \/ ReaderPut(c) \/ ReaderFull(c) \/ ReaderBusy(c)
         \/ ClientClose(c)

Spec == Init /\ [][Next]_vars

\* ---- the server together with its clock and its stats reporter.
\* Spec leaves the clock and the reporter out: the reporter only reads the two
\* counters under the lock and the clock only feeds total_latency, so they
\* multiply the states without changing connections, queue or counts.
\* TimedSpec runs all threads for one worker, a queue of one slot and the
\* reject policy (under which every step of a reader can happen), and
\* takes the worker's two counter updates one at a time.
TimedInit == Init /\ workers = 1 /\ queue_size = 1 /\ reject_when_full

TimedNext ==
  \/ Start \/ StopSet \/ StopSentinel \/ Tick
  \/ \E w \in Workers :
       WorkerLoop(w) \/ WorkerGet(w) \/ WorkerLock(w) \/ WorkerSend(w)
         \/ WorkerCountBegin(w) \/ WorkerCountEnd(w)
  \/ AcceptTimeout \/ AcceptError
  \/ \E c \in Conns :
       Accept(c) \/ ReaderLine(c) \/ ReaderEnd(c)
         \/ ReaderPut(c) \/ ReaderFull(c) \/ ReaderBusy(c)
         \/ ClientClose(c)
  \/ StatsCheck \/ StatsSnapshot

TimedSpec == TimedInit /\ [][TimedNext]_vars

\* ---- the server fed valid and malformed lines: one worker, one queue slot
MixedInit == Init /\ workers = 1 /\ queue_size = 1

ReaderLineMixed(c) == ReaderLineOf(c, MixedRequests)

MixedNext ==
  \/ Start \/ StopSet \/ StopSentinel
  \/ \E w \in Workers :
       WorkerLoop(w) \/ WorkerGet(w) \/ WorkerLock(w)
         \/ WorkerSend(w) \/ WorkerCount(w)
  \/ AcceptTimeout \/ AcceptError
  \/ \E c \in Conns :
       Accept(c) \/ ReaderLineMixed(c) \/ ReaderEnd(c)
         \/ ReaderPut(c) \/ ReaderFull(c) \/ ReaderBusy(c)
         \/ ClientClose(c)

MixedSpec == MixedInit /\ [][MixedNext]_vars

\* ------------------------------------------- the handler run on its own
\* all sequences over S of length at most n
RECURSIVE SeqsUpTo(_, _)
SeqsUpTo(S, n) ==
  IF n = 0 THEN {<<>>}
  ELSE LET shorter == SeqsUpTo(S, n - 1)
       IN shorter \cup {Append(t, ch) : t \in {u \in shorter : Len(u) = n - 1},
                                        ch \in S}

\* the characters of the argument texts tried
ArgChars == {"0", "1", "7", "-", "+", "_", " ", "x", "."}
\* the spellings of the opcode tried
SleepSpellings == {OpSleep, <<"s", "l", "e", "e", "p">>, <<"S", "l", "E", "e", "p">>}

\* the decimal digits of n >= 0, most significant first, by powers of ten
RECURSIVE PowerOfTen(_)
PowerOfTen(k) == IF k = 0 THEN 1 ELSE 10 * PowerOfTen(k - 1)
RECURSIVE NumDigits(_)
NumDigits(n) == IF n < 10 THEN 1 ELSE 1 + NumDigits(n \div 10)
Decimal(n) ==
  LET d == NumDigits(IF n < 0 THEN 0 - n ELSE n)
      a == IF n < 0 THEN 0 - n ELSE n
      body == [i \in 1..d |-> DigitChar((a \div PowerOfTen(d - i)) % 10)]
  IN IF n < 0 THEN <<"-">> \o body ELSE body

\* a request line `<op> <arg>\n` as the reader hands it to the worker
SleepLine(op, arg) == op \o <<" ">> \o arg \o <<"\n">>

InitHandler ==
  /\ workers = 1 /\ queue_size = 1 /\ reject_when_full = FALSE
  /\ Fresh
  /\ pPc = "input"
  /\ pRes = NoRes
  /\ \E op \in SleepSpellings :
       \/ \E ms \in (0 - MaxOver)..(SleepMaxMs + MaxOver) :
            /\ pMs = <<ms>>
            /\ pArg = Decimal(ms)
            /\ pLine = SleepLine(op, pArg)
       \/ \E t \in SeqsUpTo(ArgChars, MaxArgLen) :
            /\ pMs = <<>>
            /\ pArg = t
            /\ pLine = SleepLine(op, t)
       \/ /\ pMs = <<>>
          /\ pArg = <<>>
          /\ pLine = op \o <<"\n">>

\* a worker's `resp = parse_and_execute(task.line)`
HandlerRun ==
  /\ pPc = "input"
  /\ pRes' = ParseAndExecute(pLine)
  /\ pPc' = "done"
  /\ UNCHANGED <<svars, pLine, pArg, pMs>>

HandlerSpec == InitHandler /\ [][HandlerRun]_vars

\* ---- the handler run on ECHO lines
\* the characters of the echoed texts tried
TextChars == {"a", " ", "\t"}
\* the spellings of the opcode tried
EchoSpellings == {OpEcho, <<"e", "c", "h", "o">>}

\* `ECHO <text>` followed by the terminator, as the client writes it
InitEcho ==
  /\ workers = 1 /\ queue_size = 1 /\ reject_when_full = FALSE
  /\ Fresh
  /\ pPc = "input"
  /\ pRes = NoRes
  /\ pMs = <<>>
  /\ \E op \in EchoSpellings : \E t \in SeqsUpTo(TextChars, MaxTextLen) :
       /\ pArg = t
       /\ pLine = SleepLine(op, t)

EchoSpec == InitEcho /\ [][HandlerRun]_vars

\* ----------------------------------------------------- derived state
\* positions of the real (non-sentinel) tasks of the queue
RealInQueue == {i \in 1..Len(task_q) : task_q[i].conn # None}
QueueIds == {TaskId(task_q[i]) : i \in RealInQueue}
\* the workers that hold a dequeued task they have not yet counted
Holding == {w \in Workers : wtask[w] # NoTask}
HeldIds == {TaskId(wtask[w]) : w \in Holding}
WorkersGone == mpc # "init" /\ \A w \in Workers : wpc[w] \in {"exited", "unused"}
\* the replies on connection c that answer its line k
RepliesTo(c, k) == {i \in 1..Len(out[c]) : out[c][i].seq = k}

\* -------------------------------------------------------------- claims

\* C1: every task a reader put in the queue is eventually processed by a
\* worker, also when stop() is invoked with tasks still queued (the workers
\* drain the queue before they exit).  As a final-state property: once every
\* worker has left its loop, no real task is left in the queue.
C1_QueuedTasksAreDrained == WorkersGone => RealInQueue = {}

\* C2: for any number of workers, the replies to two enqueued requests of one
\* connection are written to it in the order the requests were read.
C2_RepliesInRequestOrder ==
  \A c \in Conns : \A i, j \in 1..Len(out[c]) :
    (/\ i < j
     /\ <<c, out[c][i].seq>> \in enqueued
     /\ <<c, out[c][j].seq>> \in enqueued)
    => out[c][i].seq < out[c][j].seq

\* C3: each real task is held by at most one worker and counted once:
\* processed + real tasks queued + tasks held by workers = tasks enqueued;
\* with the queue empty and no worker holding a task, processed = enqueued;
\* no task is in the queue or in a worker's hands twice.
C3_EachTaskCountedOnce ==
  /\ processed + Cardinality(RealInQueue) + Cardinality(Holding)
       = Cardinality(enqueued)
  /\ Cardinality(QueueIds) = Cardinality(RealInQueue)
  /\ Cardinality(HeldIds) = Cardinality(Holding)
  /\ QueueIds \cap HeldIds = {}
  /\ QueueIds \cup HeldIds \subseteq enqueued
  /\ (task_q = <<>> /\ Holding = {} /\ ~stopFlag)
       => processed = Cardinality(enqueued)

C3_Witness ==
  /\ ~stopFlag
  /\ task_q = <<>>
  /\ Holding = {}
  /\ workers = 2
  /\ processed = 3
  /\ Cardinality(enqueued) = 3

\* C4: under the reject policy a put that finds the queue full ends in the
\* reject path: the task is not put in the queue, no worker ever holds it, the
\* step changes neither the queue nor the counters, the reader writes
\* `ERR server busy` to its own connection and goes on to the next line.
C4_RejectStep(c) ==
  /\ (rpc[c] = "put" /\ rpc'[c] = "busy")
       => /\ reject_when_full /\ Len(task_q) >= queue_size
          /\ task_q' = task_q /\ counters' = counters /\ enqueued' = enqueued
          /\ rtask'[c] = rtask[c] /\ out' = out
  /\ (rpc[c] = "busy" /\ rpc'[c] # "busy")
       => /\ rpc'[c] = "read"
          /\ task_q' = task_q /\ counters' = counters /\ enqueued' = enqueued
          /\ \A d \in Conns \ {c} : out'[d] = out[d]
          /\ CanSend(c) =>
               out'[c] = Append(out[c], [seq |-> rtask[c].seq,
                                         text |-> ErrServerBusy \o <<"\n">>])
  /\ (rpc[c] = "put" /\ rpc'[c] = "read")
       => Len(task_q) < queue_size

C4_RejectedNeverRuns ==
  /\ rejected \cap (enqueued \cup QueueIds \cup HeldIds) = {}
  /\ processed <= Cardinality(enqueued)
  /\ \A c \in Conns : \A i \in 1..Len(out[c]) :
       <<c, out[c][i].seq>> \in rejected
         <=> out[c][i].text = ErrServerBusy \o <<"\n">>

C4_RejectLeavesNoTrace ==
  /\ []C4_RejectedNeverRuns
  /\ [][\A c \in Conns : C4_RejectStep(c)]_vars

\* a rejected line was answered `ERR server busy` and the same reader has put
\* its next line in the queue
C4_Witness ==
  /\ reject_when_full
  /\ <<1, 2>> \in rejected
  /\ <<1, 3>> \in enqueued
  /\ Len(out[1]) >= 1
  /\ out[1][1] = [seq |-> 2, text |-> ErrServerBusy \o <<"\n">>]

\* C5: under the block policy no task is dropped and `ERR server busy` is
\* never written; a reader in put leaves it only by putting that same task in
\* the queue; while one reader waits on the full queue another reader that
\* has a line to read can read it.
C5_BlockStep(c) ==
  /\ (rpc[c] = "put" /\ rpc'[c] # "put")
       => /\ rpc'[c] = "read"
          /\ Len(task_q) < queue_size
          /\ task_q' = Append(task_q, rtask[c])
  /\ (rpc[c] = "put" /\ rpc'[c] = "put") => rtask'[c] = rtask[c]

C5_BlockState ==
  /\ rejected = {}
  /\ \A c \in Conns :
       /\ rpc[c] # "busy"
       /\ \A i \in 1..Len(out[c]) : out[c][i].text # ErrServerBusy \o <<"\n">>
       /\ \A d \in Conns \ {c} :
            (/\ rpc[c] = "put" /\ Len(task_q) >= queue_size
             /\ rpc[d] = "read" /\ ~clientClosed[d] /\ LinesRead < MaxLines)
            => ENABLED ReaderLine(d)

C5_BlockNeverDrops ==
  /\ [](~reject_when_full => C5_BlockState)
  /\ [][~reject_when_full => \A c \in Conns : C5_BlockStep(c)]_vars

\* one reader waits on the full queue, the other has read a line of its own
C5_Witness ==
  /\ ~reject_when_full
  /\ Len(task_q) = queue_size
  /\ rpc[1] = "put"
  /\ rpc[2] = "put"
  /\ enqueued = {<<1, 1>>}

\* C6: after stop() every worker leaves its loop, for every worker count and
\* queue capacity.  As a final-state property: once stop() has returned, with
\* the queue empty and no reader about to put, no worker is parked in get().
C6_NoWorkerParkedAfterStop ==
  (/\ mpc = "stopped"
   /\ task_q = <<>>
   /\ \A c \in Conns : rpc[c] # "put")
  => \A w \in Workers : wpc[w] # "get"

\* C7: at no time are two threads inside a write to the same connection,
\* workers and the connection's reader (`ERR server busy`) alike.
C7_OneWriterPerConnection ==
  \A c \in Conns :
    Cardinality(WorkerWriters(c)) + (IF ReaderWriting(c) THEN 1 ELSE 0) <= 1

\* C8: a write failure while a worker sends a reply does not end the worker
\* and does not keep the lock: the worker releases the lock with the send,
\* counts the task and goes back to the head of its loop; a worker leaves its
\* loop only after stop.
C8_WorkerStep(w) ==
  /\ (wpc[w] = "sending" /\ wpc'[w] # "sending")
       => /\ lock = w /\ lock' = 0
          /\ wpc'[w] = "count"
          /\ wtask'[w] = wtask[w]
          /\ CanFail(wtask[w].conn) => out' = out
  /\ (wpc[w] = "count" /\ wpc'[w] # "count")
       => /\ processed' = processed + 1
          /\ wpc'[w] = "loop"
  /\ (wpc[w] = "loop" /\ wpc'[w] # "loop" /\ ~stopFlag) => wpc'[w] = "get"

C8_WorkerState ==
  \A w \in Workers :
    /\ lock = w <=> wpc[w] = "sending"
    /\ wpc[w] = "exited" => stopFlag

C8_WriteFailureIsSwallowed ==
  /\ []C8_WorkerState
  /\ [][\A w \in Workers : C8_WorkerStep(w)]_vars

\* the only worker has counted a task whose reply could not be written and is
\* now writing the reply to a task of the other connection
C8_Witness ==
  /\ workers = 1
  /\ ~stopFlag
  /\ processed = 1
  /\ out = [c \in Conns |-> <<>>]
  /\ clientClosed[1]
  /\ wpc[1] = "sending"
  /\ wtask[1].conn = 2

\* C9: every request line a reader has read gets exactly one reply on its
\* connection, the handler's or `ERR server busy`, as long as the client has
\* not closed the connection.  A line is pending while its task is in the
\* reader's hands, in the queue or held by a worker.
C9_Pending(c, k) ==
  \/ <<c, k>> \in QueueIds \cup HeldIds
  \/ (rpc[c] \in {"put", "busy"} /\ rtask[c].seq = k)

C9_AtMostOneReply(c) ==
  /\ \A k \in 1..MaxLines : Cardinality(RepliesTo(c, k)) <= 1
  /\ \A i \in 1..Len(out[c]) : out[c][i].seq \in 1..nread[c]

C9_Answered(c) ==
  \A k \in 1..nread[c] : C9_Pending(c, k) \/ Cardinality(RepliesTo(c, k)) = 1

C9_OneReplyPerLine ==
  \A c \in Conns : C9_AtMostOneReply(c) /\ (~clientClosed[c] => C9_Answered(c))

\* C9 as amended: ... as long as the client has not closed the connection and
\* stop() has not been invoked.
C9_OneReplyPerLineUntilStop ==
  \A c \in Conns :
    /\ C9_AtMostOneReply(c)
    /\ (~clientClosed[c] /\ ~stopFlag) => C9_Answered(c)

\* three lines read, none pending, one of them rejected, all three answered
C9_Witness ==
  /\ ~stopFlag
  /\ \A c \in Conns : ~clientClosed[c]
  /\ LinesRead = 3
  /\ rejected # {}
  /\ task_q = <<>> /\ Holding = {}
  /\ \A c \in Conns : rpc[c] = "read"
  /\ Len(out[1]) + Len(out[2]) = 3

\* C10: `SLEEP <arg>`: an integer ms in 0..10000 occupies the worker for ms
\* milliseconds and is answered `OK <ms>`; an integer outside 0..10000 is
\* answered `ERR SLEEP ms must be 0..10000` with no sleep; a non-integer or
\* missing argument is answered `ERR invalid argument` with no sleep.
\* An argument text denotes an integer when, blanks around it dropped, it is
\* an optional sign and digits (single underscores between digits allowed).
RECURSIVE C10_DigitRun(_, _)
C10_DigitRun(t, afterDigit) ==
  IF t = <<>> THEN afterDigit
  ELSE IF Head(t) \in Digits THEN C10_DigitRun(Tail(t), TRUE)
  ELSE IF Head(t) = "_" /\ afterDigit THEN
         Tail(t) # <<>> /\ Head(Tail(t)) \in Digits /\ C10_DigitRun(Tail(t), FALSE)
  ELSE FALSE

RECURSIVE C10_Trim(_)
C10_Trim(t) ==
  IF t = <<>> THEN t
  ELSE IF Head(t) = " " THEN C10_Trim(Tail(t))
  ELSE IF t[Len(t)] = " " THEN C10_Trim(SubSeq(t, 1, Len(t) - 1))
  ELSE t

C10_Unsigned(t) ==
  LET u == C10_Trim(t) IN
  IF u # <<>> /\ Head(u) \in {"+", "-"} THEN Tail(u) ELSE u

C10_IsInteger(t) == C10_DigitRun(C10_Unsigned(t), FALSE)

\* the value of a digit run, least significant digit first
RECURSIVE C10_Magnitude(_)
C10_Magnitude(t) ==
  IF t = <<>> THEN 0
  ELSE LET last == t[Len(t)]
           rest == SubSeq(t, 1, Len(t) - 1)
       IN IF last = "_" THEN C10_Magnitude(rest)
          ELSE DigitVal(last) + 10 * C10_Magnitude(rest)

C10_Value(t) ==
  LET u == C10_Trim(t)
      m == C10_Magnitude(C10_Unsigned(t))
  IN IF Head(u) = "-" THEN 0 - m ELSE m

C10_Expected(isInt, ms) ==
  IF ~isInt THEN [resp |-> ErrInvalidArg, slept |-> 0]
  ELSE IF ms >= 0 /\ ms <= 10000
       THEN [resp |-> <<"O", "K", " ">> \o Decimal(ms), slept |-> ms]
       ELSE [resp |-> ErrSleepRange, slept |-> 0]

C11_EchoVerbatim == pPc = "done" => pRes.resp = <<"O", "K", " ">> \o pArg

\* C12: a malformed request (blank line, unknown opcode, bad SLEEP argument)
\* gets exactly one `ERR ...` reply (`ERR empty request` for a blank line,
\* `ERR unknown op <OP>` with the opcode uppercased) and has no other effect:
\* the worker's send step leaves the readers, the connections, the queue and
\* the counters alone, the worker then counts the task like any other and
\* returns to the head of its loop.
C12_IsMalformed(line) == line \in {ReqBlank, ReqUnknown, ReqBadSleep}

C12_ErrFor(line) ==
  CASE line = ReqBlank ->
         <<"E", "R", "R", " ", "e", "m", "p", "t", "y", " ",
           "r", "e", "q", "u", "e", "s", "t", "\n">>
    [] line = ReqUnknown ->
         <<"E", "R", "R", " ", "u", "n", "k", "n", "o", "w", "n", " ",
           "o", "p", " ", "F", "O", "O", "\n">>
    [] line = ReqBadSleep ->
         <<"E", "R", "R", " ", "i", "n", "v", "a", "l", "i", "d", " ",
           "a", "r", "g", "u", "m", "e", "n", "t", "\n">>

C12_WorkerStep(w) ==
  C12_IsMalformed(wtask[w].line) =>
    /\ (wpc[w] = "sending" /\ wpc'[w] # "sending")
         => /\ wpc'[w] = "count"
            /\ lock' = 0
            /\ rpc' = rpc /\ clientClosed' = clientClosed
            /\ task_q' = task_q /\ counters' = counters
            /\ stopFlag' = stopFlag
            /\ \A v \in Workers \ {w} : wpc'[v] = wpc[v]
            /\ \A d \in Conns \ {wtask[w].conn} : out'[d] = out[d]
            /\ IF CanSend(wtask[w].conn)
               THEN out'[wtask[w].conn] =
                      Append(out[wtask[w].conn],
                             [seq |-> wtask[w].seq,
                              text |-> C12_ErrFor(wtask[w].line)])
               ELSE out' = out
    /\ (wpc[w] = "count" /\ wpc'[w] # "count")
         => /\ wpc'[w] = "loop"
            /\ processed' = processed + 1
            /\ rpc' = rpc /\ clientClosed' = clientClosed
            /\ out' = out /\ task_q' = task_q

C12_OneReplyEach ==
  \A c \in Conns : \A k \in 1..MaxLines : Cardinality(RepliesTo(c, k)) <= 1

C13_Step ==
  /\ processed' >= processed
  /\ total_latency' >= total_latency
  /\ now' >= now
  /\ processed' # processed
       => \E w \in Workers :
            /\ wpc[w] = "count" /\ wpc'[w] = "counting"
            /\ lock = 0 /\ lock' = w
            /\ processed' = processed + 1
            /\ total_latency' = total_latency
  /\ total_latency' # total_latency
       => \E w \in Workers :
            /\ wpc[w] = "counting" /\ wpc'[w] = "loop"
            /\ lock = w /\ lock' = 0
            /\ processed' = processed
            /\ total_latency' - total_latency = wfin[w] - wtask[w].enqueued_at
  /\ (spc = "sleep" /\ spc' # "sleep")
       => /\ snapshot' = <<processed, total_latency>>
          /\ \A w \in Workers : wpc[w] # "counting"
          /\ counters' = counters

C13_State ==
  /\ \A w \in Workers :
       /\ wpc[w] = "counting" => lock = w
       /\ wpc[w] \in {"count", "counting"} => wfin[w] >= wtask[w].enqueued_at
  /\ snapshot[1] <= processed
  /\ snapshot[2] <= total_latency

C13_CountersOnlyGrow == []C13_State /\ [][C13_Step]_vars

\* the reporter holds the pair (1, 1) and waits for the lock while the worker
\* is between the two updates for its second task
C13_Witness ==
  /\ snapshot = <<1, 1>>
  /\ spc = "sleep"
  /\ wpc[1] = "counting"
  /\ processed = 2
  /\ total_latency = 1
  /\ wfin[1] - wtask[1].enqueued_at = 1

\* C14: once the stop flag is set no reader adds a task to the queue, in
\* every interleaving of stop() with a reader's loop; a reader that finds the
\* flag set after reading a line leaves its loop and closes its connection.
C14_QueueStep ==
  (stopFlag /\ Len(task_q') > Len(task_q))
    => /\ task_q'[Len(task_q')].conn = None
       /\ enqueued' = enqueued

C14_ReaderStep(c) ==
  (stopFlag /\ rpc[c] = "read" /\ nread'[c] # nread[c]) => rpc'[c] = "closed"

C14_NoTaskAfterStop ==
  [][C14_QueueStep /\ \A c \in Conns : C14_ReaderStep(c)]_vars

\* C15: a reader closes its connection on every exit path (EOF, read error,
\* stop observed, a failure of setsockopt on the fresh connection, an error
\* while enqueueing or sending `ERR server busy`): no reader thread has ended
\* with its connection still open.
C15_ReaderEnded(c) == rpc[c] \in {"closed", "leaked"}

C15_ClosedOnEveryExit == \A c \in Conns : C15_ReaderEnded(c) => ~ConnOpen(c)

\* C16: a worker that dequeues a sentinel leaves its loop at once: the step
\* that takes a sentinel off the queue takes only that entry, ends exactly one
\* worker, writes to no connection, changes no counter and hands the worker no
\* task; a worker that has left its loop does nothing further.
C16_SentinelStep ==
  (/\ Len(task_q') < Len(task_q)
   /\ Head(task_q).conn = None)
  => /\ task_q' = Tail(task_q)
     /\ out' = out
     /\ counters' = counters
     /\ lock' = lock
     /\ \E w \in Workers :
          /\ wpc[w] = "get" /\ wpc'[w] = "exited"
          /\ wtask'[w] = NoTask
          /\ \A v \in Workers \ {w} : wpc'[v] = wpc[v] /\ wtask'[v] = wtask[v]

C16_ExitedStep(w) ==
  wpc[w] = "exited"
    => /\ wpc'[w] = "exited"
       /\ wtask'[w] = wtask[w]
       /\ Len(task_q') >= Len(task_q)
            \/ \E v \in Workers \ {w} : wpc[v] = "get" /\ wpc'[v] # "get"

C16_SentinelEndsOneWorker ==
  [][C16_SentinelStep /\ \A w \in Workers : C16_ExitedStep(w)]_vars

\* no task was ever enqueued, stop() put both sentinels, worker 1 took one and
\* left; the other sentinel is still queued and worker 2 still in get()
C16_Witness ==
  /\ workers = 2 /\ queue_size = 2
  /\ mpc = "stopped"
  /\ enqueued = {}
  /\ Len(task_q) = 1 /\ task_q[1].conn = None
  /\ wpc[1] = "exited" /\ wpc[2] = "get"
  /\ processed = 0
  /\ out = [c \in Conns |-> <<>>]

\* C17: the queue (real tasks and sentinels together) never holds more than
\* queue_size entries, under both policies; stop()'s sentinel push is never
\* blocked, and on a full queue it leaves the queue as it is and goes on to
\* the next sentinel.
C17_State ==
  /\ Len(task_q) <= queue_size
  /\ (mpc = "sentinels") => ENABLED StopSentinel

C17_Step ==
  /\ Len(task_q') <= Len(task_q) + 1
  /\ sidx' # sidx /\ mpc = "sentinels"
       => /\ sidx' = sidx + 1
          /\ IF Len(task_q) >= queue_size
             THEN task_q' = task_q
             ELSE /\ Len(task_q') = Len(task_q) + 1
                  /\ task_q'[Len(task_q')].conn = None
                  /\ SubSeq(task_q', 1, Len(task_q)) = task_q

C17_QueueNeverOverfull == []C17_State /\ [][C17_Step]_vars

\* stop() has returned after its one sentinel found the queue full of real
\* tasks and was skipped: no sentinel is queued and the worker has taken none
C17_Witness ==
  /\ workers = 1 /\ queue_size = 2
  /\ mpc = "stopped"
  /\ wpc[1] # "exited"
  /\ Len(task_q) = 2
  /\ task_q[1].conn # None /\ task_q[2].conn # None

\* C18: while a worker is inside a write to connection A (a write that does
\* not return for as long as A's peer does not read), another worker can
\* still begin its write to a connection B # A, a worker that has finished a
\* task can still update the counters, and the stats reporter can still take
\* its snapshot.
C18_WriteInProgress(w) == wpc[w] = "sending"

C18_OthersNotHeldUp ==
  \A w \in Workers :
    C18_WriteInProgress(w) =>
      /\ \A v \in Workers \ {w} :
           /\ (wpc[v] = "send" /\ wtask[v].conn # wtask[w].conn)
                => ENABLED WorkerLock(v)
           /\ wpc[v] = "count" => ENABLED WorkerCount(v)
      /\ spc = "sleep" => ENABLED StatsSnapshot

\* C19: after stop() no reader is left blocked in put() forever.  A reader is
\* blocked for good when stop() has returned, every worker has left its loop
\* (nothing will ever be taken off the queue), the queue is full and the
\* reader is in a put() without timeout (the block policy): no such state is
\* reachable, and so no entry stays queued with no consumer left while a
\* producer waits on it.
C19_BlockedForGood(c) ==
  /\ mpc = "stopped"
  /\ WorkersGone
  /\ ~reject_when_full
  /\ rpc[c] = "put"
  /\ ~HasRoom(task_q)

C19_NoReaderBlockedForGood == \A c \in Conns : ~C19_BlockedForGood(c)

\* C20: the acceptor keeps accepting until stop: the listening socket is
\* closed only when the stop flag is set; while the flag is clear, an accept
\* that timed out or raised an error is followed by another accept; a step
\* that accepts a connection starts the reader of that connection and of no
\* other.
C20_State == apc = "closed" => stopFlag

C20_Step ==
  /\ (apc = "accept" /\ ~stopFlag) => apc' = "accept"
  /\ \A c \in Conns :
       (rpc[c] = "idle" /\ rpc'[c] # "idle")
         => /\ apc = "accept"
            /\ \A d \in Conns \ {c} : rpc'[d] = rpc[d]

C20_AcceptsUntilStop == []C20_State /\ [][C20_Step]_vars

====
